---- MODULE Spec2Model ----
(***************************************************************************)
(* llamamoonlight: the package initializer src/llamamoonlight/__init__.py  *)
(* and the packaging script src/setup.py, as Python runs them.             *)
(*                                                                         *)
(* Two processes are modelled.  "session" is an interpreter that imports   *)
(* the package (directly, or through the console entry point declared in   *)
(* setup.py); "script" is `python setup.py`.  A run of either one reads    *)
(* the file, parses it, compiles it and executes the compiled statements   *)
(* one at a time.  Each run is made on one of two texts of the file: the   *)
(* text as shipped, or the text with its "Updated in commit N" lines       *)
(* removed.                                                                *)
(***************************************************************************)
EXTENDS Naturals, Sequences, FiniteSets, TLC

\* Runs each process may start.
MaxRuns == 2

Procs == {"session", "script"}
Variants == {"full", "stripped"}

\* What a run is started for.
GoalPackage == "llamamoonlight"
GoalEntry == "llamamoonlight.cli:main"
GoalScript == "setup.py"
Goals == {GoalPackage, GoalEntry, GoalScript}

GoalsOf(p) == IF p = "session" THEN {GoalPackage, GoalEntry} ELSE {GoalScript}

\* What README.md may hold when it is there.
ReadmeTexts == {"", "# llamamoonlight"}

------------------------------------------------------------------------------
(* The source texts.  A line is [line, hash, kind, name, names]: hash says *)
(* the line starts with '#'; kind and name are what the rest of the line   *)
(* is ("prose" is text that is no Python statement); names are the names   *)
(* an import binds.                                                        *)

Stmt(l, k, n, ns) == [line |-> l, hash |-> FALSE, kind |-> k, name |-> n, names |-> ns]

CommitComment(l) == [line |-> l, hash |-> TRUE, kind |-> "prose", name |-> "Updated in commit", names |-> {}]

\* src/llamamoonlight/__init__.py
InitLines ==
  << Stmt(1, "docstring", "__doc__", {}),
     Stmt(5, "assign", "__version__", {}),
     Stmt(7, "from_import", ".client", {"Client", "Config"}),
     Stmt(9, "assign", "__all__", {}) >>
  \o [i \in 1..8 |-> CommitComment(9 + 2 * i)]

\* src/setup.py
SetupLines ==
  << Stmt(1, "from_import", "setuptools", {"setup", "find_packages"}),
     Stmt(3, "with_open", "README.md", {}),
     Stmt(4, "assign_read", "long_description", {}),
     Stmt(6, "call", "setup", {}) >>
  \o [i \in 1..32 |-> CommitComment(67 + 2 * i)]

\* The keyword arguments of the setup() call, in source order.
Kw(l, k) == [line |-> l, key |-> k]

\* The call with packages= given once, on line 66 only.
SetupKeywordsPackagesOnce ==
  << Kw(7, "name"), Kw(8, "version"), Kw(9, "author"), Kw(10, "author_email"),
     Kw(11, "description"), Kw(12, "long_description"),
     Kw(13, "long_description_content_type"), Kw(14, "url"),
     Kw(15, "project_urls"), Kw(20, "classifiers"),
     Kw(34, "python_requires"), Kw(35, "install_requires"),
     Kw(41, "extras_require"), Kw(60, "entry_points"), Kw(65, "package_dir"),
     Kw(66, "packages") >>

SetupKeywords ==
  << Kw(7, "name"), Kw(8, "version"), Kw(9, "author"), Kw(10, "author_email"),
     Kw(11, "description"), Kw(12, "long_description"),
     Kw(13, "long_description_content_type"), Kw(14, "url"),
     Kw(15, "project_urls"), Kw(20, "classifiers"), Kw(33, "packages"),
     Kw(34, "python_requires"), Kw(35, "install_requires"),
     Kw(41, "extras_require"), Kw(60, "entry_points"), Kw(65, "package_dir"),
     Kw(66, "packages") >>

\* The value of a packages= keyword, by the line it is on.
PackagesValue(l) ==
  IF l = 33 THEN "find_packages(include=[llamamoonlight, llamamoonlight.*])"
  ELSE IF l = 66 THEN "find_packages(where=src)"
  ELSE "unset"

\* A requirement string, split at its version specifier.
Req(n, s) == [name |-> n, spec |-> s]

\* install_requires without its last line.
InstallRequiresThree ==
  { Req("numpy", ">=1.20.0"), Req("pandas", ">=1.3.0"), Req("requests", ">=2.25.0") }

\* install_requires, setup.py lines 35-40.
InstallRequires ==
  { Req("numpy", ">=1.20.0"), Req("pandas", ">=1.3.0"),
    Req("requests", ">=2.25.0"), Req("tqdm", ">=4.62.0") }

\* extras_require with mlx left out of the group all.
ExtrasRequireAllWithoutMlx ==
  [g \in {"dev", "mlx", "all"} |->
     CASE g = "dev" -> { Req("pytest", ">=6.0.0"), Req("pytest-cov", ">=2.12.0"),
                         Req("black", ">=21.5b2"), Req("isort", ">=5.9.0"),
                         Req("flake8", ">=3.9.0"), Req("mypy", ">=0.900") }
       [] g = "mlx" -> { Req("mlx", ">=0.0.5") }
       [] g = "all" -> { Req("matplotlib", ">=3.4.0"), Req("seaborn", ">=0.11.0"),
                         Req("scikit-learn", ">=1.0.0") }]

\* extras_require, setup.py lines 41-59.
ExtrasRequire ==
  [g \in {"dev", "mlx", "all"} |->
     CASE g = "dev" -> { Req("pytest", ">=6.0.0"), Req("pytest-cov", ">=2.12.0"),
                         Req("black", ">=21.5b2"), Req("isort", ">=5.9.0"),
                         Req("flake8", ">=3.9.0"), Req("mypy", ">=0.900") }
       [] g = "mlx" -> { Req("mlx", ">=0.0.5") }
       [] g = "all" -> { Req("mlx", ">=0.0.5"), Req("matplotlib", ">=3.4.0"),
                         Req("seaborn", ">=0.11.0"), Req("scikit-learn", ">=1.0.0") }]

\* console_scripts: "llamamoonlight=llamamoonlight.cli:main"
EntryPoint == [script |-> "llamamoonlight", module |-> "llamamoonlight.cli", attr |-> "main"]

\* The repository, had it shipped llamamoonlight/client.py.
RepoModulesWithClient == {"llamamoonlight", "llamamoonlight.client"}

\* The repository, had it shipped client.py and cli.py.
RepoModulesWithClientAndCli == {"llamamoonlight", "llamamoonlight.client", "llamamoonlight.cli"}

\* The importable modules the repository's files provide.
RepoModules == {"llamamoonlight"}

------------------------------------------------------------------------------
(* Reading a file: the tokenizer, the two texts, the parser.               *)

IsCode(l) == ~l.hash

IsCommitComment(l) == l.hash /\ l.name = "Updated in commit"

NotCommitComment(l) == ~IsCommitComment(l)

\* A tokenizer that hands comment lines on to the parser.
TokenizeKeepingComments(lines) == lines

\* The tokenizer drops every comment: what is left is what the parser sees.
Tokenize(lines) == SelectSeq(lines, IsCode)

\* The file with its "Updated in commit N" lines removed.
StripCommitComments(lines) == SelectSeq(lines, NotCommitComment)

FileOf(g) == IF g = GoalScript THEN SetupLines ELSE InitLines

SourceText(g, v) == IF v = "full" THEN FileOf(g) ELSE StripCommitComments(FileOf(g))

Code(g, v) == Tokenize(SourceText(g, v))

\* The first token that is no statement (0: there is none).
ParseError(toks) ==
  LET bad == {i \in 1..Len(toks) : toks[i].kind = "prose"}
  IN IF bad = {} THEN 0 ELSE CHOOSE i \in bad : \A j \in bad : i <= j

\* A compiler that lets a repeated keyword through.
KeywordRepeatedNever(scanned, i) == FALSE

\* The compiler refuses a call that gives one keyword twice.
KeywordRepeated(scanned, i) ==
  \E j \in scanned : SetupKeywords[j].key = SetupKeywords[i].key

\* The keyword occurrence a call binds `key` to, among those compiled.
LastKeyword(scanned, key) ==
  LET is == {i \in scanned : SetupKeywords[i].key = key}
  IN IF is = {} THEN 0 ELSE CHOOSE i \in is : \A j \in is : j <= i

\* `from .client import ...` inside package llamamoonlight.
Resolve(name) == IF name = ".client" THEN "llamamoonlight.client" ELSE name

------------------------------------------------------------------------------
(* The state.                                                              *)

VARIABLES
  fs,           \* the files of the working directory: [name, text] records
  site,         \* the distributions installed beside the interpreter
  sys_modules,  \* the session's sys.modules
  pr,           \* each process's run: phase, position, namespace, trace
  runs,         \* the runs each process has started
  seen          \* the outcomes of the finished runs, by goal and text

vars == <<fs, site, sys_modules, pr, runs, seen>>

NoErr == [type |-> "none", arg |-> "", line |-> 0]

Err(t, a, l) == [type |-> t, arg |-> a, line |-> l]

Event(o, a, l) == [op |-> o, arg |-> a, line |-> l]

Idle ==
  [phase |-> "idle", goal |-> "none", variant |-> "full", ci |-> 0, kwi |-> 0,
   scanned |-> {}, ns |-> {}, trace |-> <<>>, err |-> NoErr,
   long_description |-> "", packages |-> "unset"]

\* An exception leaves the run: the traceback names its type and line.
Raise(r, t, a, l) ==
  [r EXCEPT !.phase = "raised", !.err = Err(t, a, l),
            !.trace = Append(@, Event("raise", t, l))]

\* An import system that leaves the failed package registered.
OnImportFailureKeepsModule(mods) == mods

\* A package whose body raised is taken out of sys.modules again.
OnImportFailure(mods) == mods \ {GoalPackage}

\* The import system's search: the repository's modules, then site-packages.
FindModule(m) == m \in RepoModules \/ m \in site

\* What a run shows of itself: how it ended, what it did, what it bound.
Outcome(r) ==
  [status |-> r.phase, trace |-> r.trace, err |-> r.err, ns |-> r.ns,
   long_description |-> r.long_description, packages |-> r.packages]

Init ==
  /\ fs \in {{}} \cup {{[name |-> "README.md", text |-> t]} : t \in ReadmeTexts}
  /\ site \in SUBSET {"setuptools"}
  /\ sys_modules = {}
  /\ pr = [p \in Procs |-> Idle]
  /\ runs = [p \in Procs |-> 0]
  /\ seen = [g \in Goals |-> [v \in Variants |-> {}]]

------------------------------------------------------------------------------
(* The steps of a run.                                                     *)

\* sys.modules after a run of p failed inside the module body.
AfterFailure(p) == IF p = "session" THEN OnImportFailure(sys_modules) ELSE sys_modules

\* A run starts.  An import first looks in sys.modules: a package found there
\* is returned as it is, its body not executed again.  Otherwise the module
\* is registered in sys.modules and its file is read.
Start(p, g, v) ==
  /\ pr[p].phase = "idle"
  /\ runs[p] < MaxRuns
  /\ g \in GoalsOf(p)
  /\ runs' = [runs EXCEPT ![p] = @ + 1]
  /\ IF p = "session" /\ GoalPackage \in sys_modules
       THEN /\ pr' = [pr EXCEPT ![p] = [Idle EXCEPT !.phase = "run", !.goal = g,
                                        !.variant = v, !.ci = Len(Code(g, v)) + 1]]
            /\ UNCHANGED sys_modules
       ELSE /\ pr' = [pr EXCEPT ![p] = [Idle EXCEPT !.phase = "parse", !.goal = g,
                                        !.variant = v]]
            /\ sys_modules' = IF p = "session" THEN sys_modules \cup {GoalPackage}
                                               ELSE sys_modules
  /\ UNCHANGED <<fs, site, seen>>

\* The file is tokenized and parsed as a whole, before anything runs.
Parse(p) ==
  LET r == pr[p]
      toks == Code(r.goal, r.variant)
      e == ParseError(toks)
  IN /\ r.phase = "parse"
     /\ IF e # 0
          THEN /\ pr' = [pr EXCEPT ![p] = Raise(r, "SyntaxError", "invalid syntax", toks[e].line)]
               /\ sys_modules' = AfterFailure(p)
          ELSE /\ pr' = [pr EXCEPT ![p] = [r EXCEPT !.phase = "compile", !.ci = 1, !.kwi = 1]]
               /\ UNCHANGED sys_modules
     /\ UNCHANGED <<fs, site, runs, seen>>

\* The parsed statements are compiled in order; the keywords of a call are
\* compiled one by one, and a keyword given before is a SyntaxError.  Only a
\* file compiled to its end is executed.
Compile(p) ==
  LET r == pr[p]
      toks == Code(r.goal, r.variant)
  IN /\ r.phase = "compile"
     /\ IF r.ci > Len(toks)
          THEN /\ pr' = [pr EXCEPT ![p] = [r EXCEPT !.phase = "run", !.ci = 1]]
               /\ UNCHANGED sys_modules
          ELSE IF toks[r.ci].kind # "call" \/ r.kwi > Len(SetupKeywords)
          THEN /\ pr' = [pr EXCEPT ![p] = [r EXCEPT !.ci = @ + 1]]
               /\ UNCHANGED sys_modules
          ELSE IF KeywordRepeated(r.scanned, r.kwi)
          THEN /\ pr' = [pr EXCEPT ![p] = Raise(r, "SyntaxError", "keyword argument repeated",
                                                SetupKeywords[r.kwi].line)]
               /\ sys_modules' = AfterFailure(p)
          ELSE /\ pr' = [pr EXCEPT ![p] = [r EXCEPT !.scanned = @ \cup {r.kwi}, !.kwi = @ + 1]]
               /\ UNCHANGED sys_modules
     /\ UNCHANGED <<fs, site, runs, seen>>

\* The run after statement s: the next statement, with s's effect.
Done(r, s, o) ==
  [r EXCEPT !.ci = @ + 1, !.trace = Append(@, Event(o, s.name, s.line))]

ExecStmt(r, s) ==
  CASE s.kind \in {"docstring", "assign"} ->
         [Done(r, s, "assign") EXCEPT !.ns = @ \cup {s.name}]
    [] s.kind = "from_import" ->
         IF FindModule(Resolve(s.name))
         THEN [Done(r, s, "import") EXCEPT !.ns = @ \cup s.names]
         ELSE Raise(r, "ModuleNotFoundError", Resolve(s.name), s.line)
    [] s.kind = "with_open" ->
         IF \E f \in fs : f.name = s.name
         THEN Done(r, s, "open")
         ELSE Raise(r, "FileNotFoundError", s.name, s.line)
    [] s.kind = "assign_read" ->
         [Done(r, s, "read") EXCEPT
            !.ns = @ \cup {s.name},
            !.long_description = (CHOOSE f \in fs : f.name = "README.md").text]
    [] s.kind = "call" ->
         [Done(r, s, "call") EXCEPT
            !.packages = PackagesValue(SetupKeywords[LastKeyword(r.scanned, "packages")].line)]

\* The end of the module body.  The package is imported; the console script goes
\* on to `from llamamoonlight.cli import main` and calls main.
EndOfBody(r) ==
  IF r.goal # GoalEntry
  THEN [r EXCEPT !.phase = "done"]
  ELSE IF FindModule(EntryPoint.module)
  THEN [r EXCEPT !.phase = "done", !.trace = Append(@, Event("call", EntryPoint.attr, 0))]
  ELSE Raise(r, "ModuleNotFoundError", EntryPoint.module, 0)

\* One statement of the compiled file is executed.
Exec(p) ==
  LET r == pr[p]
      toks == Code(r.goal, r.variant)
  IN /\ r.phase = "run"
     /\ IF r.ci <= Len(toks)
          THEN LET n == ExecStmt(r, toks[r.ci])
               IN /\ pr' = [pr EXCEPT ![p] = n]
                  /\ sys_modules' = IF n.phase = "raised" THEN AfterFailure(p)
                                                          ELSE sys_modules
          ELSE /\ pr' = [pr EXCEPT ![p] = EndOfBody(r)]
               /\ UNCHANGED sys_modules
     /\ UNCHANGED <<fs, site, runs, seen>>

\* The run is over: its outcome is what the caller (or the shell) sees.
Finish(p) ==
  LET r == pr[p]
  IN /\ r.phase \in {"raised", "done"}
     /\ seen' = [seen EXCEPT ![r.goal][r.variant] = @ \cup {Outcome(r)}]
     /\ pr' = [pr EXCEPT ![p] = Idle]
     /\ UNCHANGED <<fs, site, sys_modules, runs>>

Next ==
  \E p \in Procs :
    \/ \E g \in Goals, v \in Variants : Start(p, g, v)
    \/ Parse(p)
    \/ Compile(p)
    \/ Exec(p)
    \/ Finish(p)

Spec == Init /\ [][Next]_vars

------------------------------------------------------------------------------
(* What the properties speak of.                                           *)

\* Every run there has been of goal g: the finished ones and the one under way.
RunsOf(g) ==
  UNION {seen[g][v] : v \in Variants}
    \cup {Outcome(pr[p]) : p \in {q \in Procs : pr[q].goal = g}}

Finished(g) == UNION {seen[g][v] : v \in Variants}

Events(o) == {o.trace[i] : i \in 1..Len(o.trace)}

\* The statements a run performed (a raise is how one of them ended).
Performed(o) == {e \in Events(o) : e.op # "raise"}

\* Keyword `key` of the setup() call has been read by a run.
Declared(key) ==
  \E p \in Procs : \E i \in pr[p].scanned : SetupKeywords[i].key = key

\* The modules and names the statements of the two files import or mention.
Referenced ==
  UNION {{l.name, Resolve(l.name)} \cup l.names :
           l \in {Tokenize(InitLines)[i] : i \in 1..Len(Tokenize(InitLines))}
                \cup {Tokenize(SetupLines)[i] : i \in 1..Len(Tokenize(SetupLines))}}

Names(reqs) == {q.name : q \in reqs}

ClientMissing == Err("ModuleNotFoundError", "llamamoonlight.client", 7)

------------------------------------------------------------------------------
\* C1: every import of the package llamamoonlight, whatever came before it,
\* ends in ModuleNotFoundError for llamamoonlight.client raised by line 7 of
\* __init__.py; no import completes, and Client and Config are never bound.
C1_ImportAlwaysFails ==
  /\ \A o \in RunsOf(GoalPackage) \cup RunsOf(GoalEntry) :
        /\ o.status # "done"
        /\ o.ns \cap {"Client", "Config"} = {}
        /\ o.status = "raised" => o.err = ClientMissing
  /\ "llamamoonlight.client" \notin RepoModules

\* Two imports have been made and have ended, the second after the first failed.
C1_Witness ==
  /\ runs["session"] = 2
  /\ pr["session"].phase = "idle"
  /\ \E o \in Finished(GoalPackage) : o.err = ClientMissing

\* C2 as stated: a run of setup.py that is over has called setup(), with
\* packages bound to the second value, find_packages(where="src").
C2_SecondPackagesOverrides ==
  \A o \in Finished(GoalScript) :
    /\ Event("call", "setup", 6) \in Events(o)
    /\ o.packages = PackagesValue(66)

\* C3: the console script llamamoonlight is declared as llamamoonlight.cli:main,
\* the repository has no module llamamoonlight.cli, and every invocation ends in
\* ModuleNotFoundError without main being called.
C3_EntryPointNeverReachesMain ==
  /\ EntryPoint = [script |-> "llamamoonlight", module |-> "llamamoonlight.cli", attr |-> "main"]
  /\ EntryPoint.module \notin RepoModules
  /\ \A o \in RunsOf(GoalEntry) :
        /\ o.status # "done"
        /\ \A e \in Events(o) : ~(e.op = "call" /\ e.arg = EntryPoint.attr)
        /\ o.status = "raised" => o.err.type = "ModuleNotFoundError"

\* The console script has been invoked and has ended.
C3_Witness ==
  \E o \in Finished(GoalEntry) : o.status = "raised"

\* C4 as stated: install_requires names exactly three libraries, none of them
\* imported or mentioned by a statement of the repository.
C4_ThreeRequirements ==
  Declared("install_requires") =>
    /\ Cardinality(Names(InstallRequires)) = 3
    /\ Names(InstallRequires) \cap Referenced = {}

\* C4, amended: install_requires names exactly four libraries (numpy, pandas,
\* requests, tqdm), none of them imported or mentioned by a statement of the
\* repository.
C4_FourRequirements ==
  Declared("install_requires") =>
    /\ Cardinality(InstallRequires) = 4
    /\ Names(InstallRequires) = {"numpy", "pandas", "requests", "tqdm"}
    /\ Names(InstallRequires) \cap Referenced = {}

\* A run of setup.py has read the install_requires keyword.
C4_Witness ==
  \E i \in pr["script"].scanned : SetupKeywords[i].key = "install_requires"

\* C5: no run of __init__.py or of setup.py opens or reads a file.
C5_NoIO ==
  \A g \in Goals : \A o \in RunsOf(g) :
    \A e \in Events(o) : e.op \notin {"open", "read", "write"}

\* A run of setup.py and an import of the package have both ended, README.md
\* being there to open.
C5_Witness ==
  /\ fs # {}
  /\ Finished(GoalScript) # {}
  /\ Finished(GoalPackage) # {}

\* C6: a run of setup.py performs no statement that is not the setup() call,
\* and only runs of __init__.py refer to a module that is not there.
C6_OnlyInitExecutes ==
  /\ \A o \in RunsOf(GoalScript) :
        /\ \A e \in Performed(o) : e.op = "call" /\ e.arg = "setup"
        /\ o.err.type # "ModuleNotFoundError"
  /\ \A o \in Finished(GoalPackage) : o.err.type = "ModuleNotFoundError"

\* setup.py has been run where setuptools is not installed, and the package
\* has been imported; both runs are over.
C6_Witness ==
  /\ site = {}
  /\ \E o \in Finished(GoalScript) : o.status = "raised"
  /\ \E o \in Finished(GoalPackage) : Performed(o) # {}

\* C7: for each file, a run on the text without the "Updated in commit N" lines
\* performs the same steps and ends the same way as a run on the text with them.
C7_CommentsChangeNothing ==
  \A g \in Goals : \A a \in seen[g]["full"] : \A b \in seen[g]["stripped"] : a = b

\* Both texts of both files have been run.
C7_Witness ==
  \A g \in {GoalPackage, GoalScript} : \A v \in Variants : seen[g][v] # {}

\* C8: in every import, __version__ is assigned before line 7 raises, __all__ is
\* never assigned, and the failed package is not left in sys.modules: each later
\* import executes the body again and fails in the same way.
C8_OrderAndReexecution ==
  /\ \A o \in Finished(GoalPackage) \cup Finished(GoalEntry) :
        /\ \E i, j \in 1..Len(o.trace) :
              /\ i < j
              /\ o.trace[i] = Event("assign", "__version__", 5)
              /\ o.trace[j] = Event("raise", "ModuleNotFoundError", 7)
              /\ j = Len(o.trace)
        /\ "__version__" \in o.ns
        /\ o.err = ClientMissing
  /\ \A o \in RunsOf(GoalPackage) \cup RunsOf(GoalEntry) :
        /\ "__all__" \notin o.ns
        /\ \A e \in Events(o) : e.arg # "__all__"
  /\ pr["session"].phase \in {"idle", "raised"} => GoalPackage \notin sys_modules

\* A second import has ended after a first one failed.
C8_Witness ==
  /\ runs["session"] = 2
  /\ pr["session"].phase = "raised"
  /\ Finished(GoalPackage) # {}
  /\ pr["session"].goal = GoalPackage
  /\ Event("assign", "__version__", 5) \in Events(Outcome(pr["session"]))

\* C9 as stated: without README.md a run of setup.py fails at the open of
\* line 3, before setup(); and setup() is called only once long_description
\* holds the file's text.
C9_ReadmeReadBeforeSetup ==
  \A o \in Finished(GoalScript) :
    /\ fs = {} => /\ o.err.type = "FileNotFoundError"
                   /\ o.err.line = 3
                   /\ Event("call", "setup", 6) \notin Events(o)
    /\ Event("call", "setup", 6) \in Events(o) =>
          /\ "long_description" \in o.ns
          /\ \E f \in fs : f.name = "README.md" /\ f.text = o.long_description

\* C10: extras_require has exactly the groups dev, mlx and all; every requirement
\* of mlx is one of all, none of dev is, and no group shares a requirement with
\* install_requires.
C10_Extras ==
  Declared("extras_require") =>
    /\ DOMAIN ExtrasRequire = {"dev", "mlx", "all"}
    /\ ExtrasRequire["mlx"] # {}
    /\ ExtrasRequire["mlx"] \subseteq ExtrasRequire["all"]
    /\ ExtrasRequire["dev"] \cap ExtrasRequire["all"] = {}
    /\ Names(ExtrasRequire["dev"]) \cap Names(ExtrasRequire["all"]) = {}
    /\ \A g \in DOMAIN ExtrasRequire :
          Names(ExtrasRequire[g]) \cap Names(InstallRequires) = {}

\* A run of setup.py has read the extras_require keyword.
C10_Witness ==
  \E i \in pr["script"].scanned : SetupKeywords[i].key = "extras_require"

====
